---- MODULE Spec2Model ----
(***************************************************************************)
(* Model of organizer.py: FileOrganizer.organize walks the direct children *)
(* of a target directory and places every non-hidden regular file into a   *)
(* category folder chosen by a content sniff (the `file` command) and,     *)
(* failing that, by the file extension.                                    *)
(*                                                                         *)
(* File names, extensions, keywords and the output of `file` are sequences *)
(* of one-character strings, so that lower-casing, substring search,       *)
(* stem/suffix splitting and the "stem_k.ext" formatting are computed the  *)
(* way the code computes them.                                             *)
(***************************************************************************)
EXTENDS Integers, Sequences, FiniteSets, TLC

\* ------------------------------------------------------------------------
\* Bounds of the model
\* ------------------------------------------------------------------------
MaxTop == 3        \* regular files at the top level of the target directory
MaxPre == 2        \* files already inside category folders at the start
MaxAdded == 1      \* files the user drops into the directory between passes
MaxFaults == 1     \* OS errors (permission denied ...) raised during a behaviour
MaxExternal == 1   \* files created by another process during a behaviour

\* ------------------------------------------------------------------------
\* Configuration tables (dicts keep insertion order)
\* ------------------------------------------------------------------------
EXTENSION_MAP ==
  <<
    [category |-> "Images", extensions |-> <<
       <<".","j","p","g">>,   \* .jpg
       <<".","j","p","e","g">>,   \* .jpeg
       <<".","p","n","g">>,   \* .png
       <<".","g","i","f">>,   \* .gif
       <<".","b","m","p">>,   \* .bmp
       <<".","t","i","f","f">>,   \* .tiff
       <<".","w","e","b","p">>   \* .webp
     >>],
    [category |-> "Documents", extensions |-> <<
       <<".","p","d","f">>,   \* .pdf
       <<".","d","o","c","x">>,   \* .docx
       <<".","d","o","c">>,   \* .doc
       <<".","t","x","t">>,   \* .txt
       <<".","x","l","s","x">>,   \* .xlsx
       <<".","p","p","t","x">>,   \* .pptx
       <<".","m","d">>   \* .md
     >>],
    [category |-> "Archives", extensions |-> <<
       <<".","z","i","p">>,   \* .zip
       <<".","t","a","r">>,   \* .tar
       <<".","g","z">>,   \* .gz
       <<".","r","a","r">>,   \* .rar
       <<".","7","z">>   \* .7z
     >>],
    [category |-> "Videos", extensions |-> <<
       <<".","m","p","4">>,   \* .mp4
       <<".","m","k","v">>,   \* .mkv
       <<".","a","v","i">>,   \* .avi
       <<".","m","o","v">>   \* .mov
     >>],
    [category |-> "Music", extensions |-> <<
       <<".","m","p","3">>,   \* .mp3
       <<".","w","a","v">>,   \* .wav
       <<".","a","a","c">>,   \* .aac
       <<".","f","l","a","c">>   \* .flac
     >>],
    [category |-> "Code", extensions |-> <<
       <<".","p","y">>,   \* .py
       <<".","j","s">>,   \* .js
       <<".","h","t","m","l">>,   \* .html
       <<".","c","s","s">>,   \* .css
       <<".","c","p","p">>,   \* .cpp
       <<".","j","a","v","a">>,   \* .java
       <<".","s","h">>   \* .sh
     >>],
    [category |-> "Executables", extensions |-> <<
       <<".","e","x","e">>,   \* .exe
       <<".","m","s","i">>,   \* .msi
       <<".","d","e","b">>,   \* .deb
       <<".","a","p","k">>,   \* .apk
       <<".","b","i","n">>,   \* .bin
       <<".","a","p","p","i","m","a","g","e">>   \* .appimage
     >>],
    [category |-> "Others", extensions |-> <<
     >>]
  >>

FILE_TYPE_KEYWORDS ==
  <<
    [category |-> "Executables", keywords |-> <<
       <<"E","L","F">>,   \* ELF
       <<"e","x","e","c","u","t","a","b","l","e">>,   \* executable
       <<"P","E","3","2">>,   \* PE32
       <<"M","a","c","h","-","O">>   \* Mach-O
     >>],
    [category |-> "Documents", keywords |-> <<
       <<"P","D","F">>,   \* PDF
       <<"M","i","c","r","o","s","o","f","t">>,   \* Microsoft
       <<"W","o","r","d">>,   \* Word
       <<"E","x","c","e","l">>,   \* Excel
       <<"P","o","w","e","r","P","o","i","n","t">>,   \* PowerPoint
       <<"R","i","c","h"," ","T","e","x","t">>   \* Rich Text
     >>],
    [category |-> "Archives", keywords |-> <<
       <<"a","r","c","h","i","v","e">>,   \* archive
       <<"c","o","m","p","r","e","s","s","e","d">>,   \* compressed
       <<"g","z","i","p">>,   \* gzip
       <<"b","z","i","p","2">>   \* bzip2
     >>],
    [category |-> "Images", keywords |-> <<
       <<"i","m","a","g","e">>,   \* image
       <<"b","i","t","m","a","p">>,   \* bitmap
       <<"J","P","E","G">>,   \* JPEG
       <<"P","N","G">>   \* PNG
     >>],
    [category |-> "Videos", keywords |-> <<
       <<"v","i","d","e","o">>,   \* video
       <<"A","V","I">>,   \* AVI
       <<"M","P","4">>,   \* MP4
       <<"M","a","t","r","o","s","k","a">>   \* Matroska
     >>],
    [category |-> "Music", keywords |-> <<
       <<"a","u","d","i","o">>,   \* audio
       <<"M","P","E","G"," ","A","D","T","S">>,   \* MPEG ADTS
       <<"F","L","A","C">>,   \* FLAC
       <<"W","A","V">>,   \* WAV
       <<"M","P","3">>   \* MP3
     >>],
    [category |-> "Code", keywords |-> <<
       <<"A","S","C","I","I"," ","t","e","x","t">>,   \* ASCII text
       <<"s","c","r","i","p","t">>,   \* script
       <<"s","o","u","r","c","e">>   \* source
     >>]
  >>

Categories ==
  {"Images", "Documents", "Archives", "Videos", "Music", "Code", "Executables", "Others"}

\* the value Python's None stands for a content sniff without a result
None == "None"

\* ------------------------------------------------------------------------
\* Strings
\* ------------------------------------------------------------------------
UpperToLower ==
  [A |-> "a", B |-> "b", C |-> "c", D |-> "d", E |-> "e", F |-> "f", G |-> "g",
   H |-> "h", I |-> "i", J |-> "j", K |-> "k", L |-> "l", M |-> "m", N |-> "n",
   O |-> "o", P |-> "p", Q |-> "q", R |-> "r", S |-> "s", T |-> "t", U |-> "u",
   V |-> "v", W |-> "w", X |-> "x", Y |-> "y", Z |-> "z"]

\* str.lower()
Lower(s) ==
  [i \in 1..Len(s) |-> IF s[i] \in DOMAIN UpperToLower THEN UpperToLower[s[i]] ELSE s[i]]

\* `k in s` for strings
Contains(s, k) ==
  \E i \in 1..(Len(s) - Len(k) + 1) : SubSeq(s, i, i + Len(k) - 1) = k

Digits == <<"0", "1", "2", "3", "4", "5", "6", "7", "8", "9">>

\* str(n) of a natural number, as the f-string formats {count}
RECURSIVE Str(_)
Str(n) ==
  IF n < 10 THEN <<Digits[n + 1]>>
  ELSE Str(n \div 10) \o <<Digits[(n % 10) + 1]>>

SetMax(S) == CHOOSE x \in S : \A y \in S : y <= x
SetMin(S) == CHOOSE x \in S : \A y \in S : x <= y

\* position of the last "." of a name that splits it into stem and suffix,
\* 0 when pathlib finds no suffix (no dot, leading dot only, trailing dot)
SuffixDot(name) ==
  LET dots == {i \in 1..Len(name) : name[i] = "."}
  IN  IF dots = {} THEN 0
      ELSE IF 1 < SetMax(dots) /\ SetMax(dots) < Len(name) THEN SetMax(dots)
      ELSE 0

\* Path.suffix
Suffix(name) ==
  IF SuffixDot(name) = 0 THEN <<>> ELSE SubSeq(name, SuffixDot(name), Len(name))

\* Path.stem
Stem(name) ==
  IF SuffixDot(name) = 0 THEN name ELSE SubSeq(name, 1, SuffixDot(name) - 1)

\* a hidden-file test that looks at the suffix instead of the name
IsHiddenBySuffix(name) == Suffix(name) # <<>> /\ Stem(name) = <<>>

\* file_path.name.startswith('.')
IsHidden(name) == Len(name) > 0 /\ name[1] = "."

\* ------------------------------------------------------------------------
\* The directory tree
\* ------------------------------------------------------------------------
\* A file is [dir, name, content, src]: dir is TopDir or the category whose
\* folder holds it, content is what the file holds, src is the path the file
\* had when it first appeared (its identity).
TopDir == "."

\* resolved path of the target directory
TargetDir == <<"/", "d">>

\* name of the folder of a category, as a path component
DirName(c) ==
  CASE c = "Images"      -> <<"I","m","a","g","e","s">>
    [] c = "Documents"   -> <<"D","o","c","u","m","e","n","t","s">>
    [] c = "Archives"    -> <<"A","r","c","h","i","v","e","s">>
    [] c = "Videos"      -> <<"V","i","d","e","o","s">>
    [] c = "Music"       -> <<"M","u","s","i","c">>
    [] c = "Code"        -> <<"C","o","d","e">>
    [] c = "Executables" -> <<"E","x","e","c","u","t","a","b","l","e","s">>
    [] c = "Others"      -> <<"O","t","h","e","r","s">>

Path(dir, name) == [dir |-> dir, name |-> name]

\* Path.exists() of dir/name in the file set fs
Exists(dir, name, fs) == \E f \in fs : f.dir = dir /\ f.name = name

\* ------------------------------------------------------------------------
\* The content sniffer: the external `file` command
\* ------------------------------------------------------------------------
Contents == {"pdf", "data"}

\* description `file` gives of a content
Describe(content) ==
  CASE content = "pdf"  -> <<"P","D","F"," ","d","o","c","u","m","e","n","t">>
    [] content = "data" -> <<"d","a","t","a">>

\* stdout of `file <path>`: without --brief the line is "<path>: <description>"
FileOutput(name, content) ==
  TargetDir \o <<"/">> \o name \o <<":", " ">> \o Describe(content) \o <<"\n">>

\* the loops over FILE_TYPE_KEYWORDS: first category, in declaration order,
\* that has a keyword whose lower-cased form occurs in the lower-cased output
KeywordsLower ==
  [i \in 1..Len(FILE_TYPE_KEYWORDS) |->
     [j \in 1..Len(FILE_TYPE_KEYWORDS[i].keywords) |->
        Lower(FILE_TYPE_KEYWORDS[i].keywords[j])]]

RECURSIVE KeywordLoop(_, _)
KeywordLoop(full_output, i) ==
  IF i > Len(FILE_TYPE_KEYWORDS) THEN None
  ELSE IF \E j \in 1..Len(KeywordsLower[i]) : Contains(full_output, KeywordsLower[i][j])
    THEN FILE_TYPE_KEYWORDS[i].category
  ELSE KeywordLoop(full_output, i + 1)

KeywordCategory(full_output) == KeywordLoop(full_output, 1)

\* _get_category_by_file_command; available = the `file` command can be run
\* (subprocess.run raises otherwise, and the except clause returns None)
GetCategoryByFileCommand(name, content, available) ==
  IF ~available THEN None
  ELSE KeywordCategory(Lower(FileOutput(name, content)))

\* an extension lookup that forgets the final return "Others"
GetCategoryByExtensionNoDefault(ext) ==
  LET hits == {i \in 1..Len(EXTENSION_MAP) :
                 \E j \in 1..Len(EXTENSION_MAP[i].extensions) :
                    EXTENSION_MAP[i].extensions[j] = ext}
  IN  IF hits = {} THEN None ELSE EXTENSION_MAP[SetMin(hits)].category

\* _get_category_by_extension
GetCategoryByExtension(ext) ==
  LET hits == {i \in 1..Len(EXTENSION_MAP) :
                 \E j \in 1..Len(EXTENSION_MAP[i].extensions) :
                    EXTENSION_MAP[i].extensions[j] = ext}
  IN  IF hits = {} THEN "Others" ELSE EXTENSION_MAP[SetMin(hits)].category

\* lines 79-81 of _process_file
Classify(name, content, available) ==
  LET category == GetCategoryByFileCommand(name, content, available)
  IN  IF category # None THEN category
      ELSE GetCategoryByExtension(Lower(Suffix(name)))

\* ------------------------------------------------------------------------
\* Destination resolution
\* ------------------------------------------------------------------------
\* f"{base}_{count}{ext}"
NewName(base, count, ext) == base \o <<"_">> \o Str(count) \o ext

\* a probe loop that takes stem_1.ext without looking
ProbeOnce(dir, base, ext, count, fs) == Path(dir, NewName(base, count, ext))

\* the while loop of _resolve_conflict
RECURSIVE Probe(_, _, _, _, _)
Probe(dir, base, ext, count, fs) ==
  IF ~Exists(dir, NewName(base, count, ext), fs)
    THEN Path(dir, NewName(base, count, ext))
    ELSE Probe(dir, base, ext, count + 1, fs)

\* a resolver whose counter starts at 0
ResolveConflictFromZero(dir, name, fs) ==
  IF ~Exists(dir, name, fs) THEN Path(dir, name)
  ELSE Probe(dir, Stem(name), Suffix(name), 0, fs)

\* a resolver that returns the requested path without looking
ResolveConflictNoCheck(dir, name, fs) == Path(dir, name)

\* _resolve_conflict(destination) with destination = dir / name
ResolveConflict(dir, name, fs) ==
  IF ~Exists(dir, name, fs) THEN Path(dir, name)
  ELSE Probe(dir, Stem(name), Suffix(name), 1, fs)

\* mkdir without exist_ok: an existing folder is an error too
MkdirNotExistOk(c, fs, ds) == Exists(TopDir, DirName(c), fs) \/ c \in ds

\* destination_folder.mkdir(exist_ok=True) raises FileExistsError only when
\* the path is taken by something that is not a directory
MkdirRaises(c, fs, ds) == Exists(TopDir, DirName(c), fs)

\* directories after destination_folder.mkdir(exist_ok=True) succeeded
Mkdir(c, ds) == ds \cup {c}

\* a move that copies and forgets to remove the source
ShutilMoveKeepsSource(f, dst, fs) ==
  {g \in fs : ~(g.dir = dst.dir /\ g.name = dst.name)}
    \cup {[f EXCEPT !.dir = dst.dir, !.name = dst.name, !.id = <<"copy">> \o f.id]}

\* shutil.move(src, dst) for a regular file on one filesystem: os.rename,
\* which replaces a file that is already at dst
ShutilMove(f, dst, fs) ==
  {g \in fs : g # f /\ ~(g.dir = dst.dir /\ g.name = dst.name)}
    \cup {[f EXCEPT !.dir = dst.dir, !.name = dst.name]}

\* ------------------------------------------------------------------------
\* Inputs
\* ------------------------------------------------------------------------
\* (name, content) of the files that may lie at the top level at the start
TopPool ==
  { << <<"a",".","t","x","t">>, "data" >>,                            \* a.txt
    << <<"a","_","1",".","t","x","t">>, "data" >>,                    \* a_1.txt
    << <<".","s","e","c","r","e","t">>, "data" >>,                    \* .secret
    << <<"a","r","c","h","i","v","e",".","x","y","z">>, "data" >>,    \* archive.xyz
    << <<"a","r","c","h","i","v","e",".","x","y","z">>, "pdf" >> }

\* the same for the passes in which OS errors are raised: Others is a regular
\* file that has the name of a category folder
FaultPool ==
  { << <<"a",".","t","x","t">>, "data" >>,                            \* a.txt
    << <<"a","_","1",".","t","x","t">>, "data" >>,                    \* a_1.txt
    << <<"a","r","c","h","i","v","e",".","x","y","z">>, "data" >>,    \* archive.xyz
    << <<"O","t","h","e","r","s">>, "data" >> }                       \* Others

\* names of the files that may already be inside the Documents folder
PreNames ==
  { <<"a",".","t","x","t">>,                              \* a.txt
    <<"a","_","1",".","t","x","t">>,                      \* a_1.txt
    <<"a","_","2",".","t","x","t">> }                     \* a_2.txt

\* folders that may exist before the first pass
PreDirs == {"Documents"}

\* names of the files dropped into the directory between two passes
AddNames == { <<"a",".","t","x","t">> }                   \* a.txt

\* dry_run of the successive organize() passes of a behaviour:
\* preview then apply, apply twice; a single pass of either mode; one apply
TwoPasses == { <<TRUE, FALSE>>, <<FALSE, FALSE>> }
OnePass == { <<TRUE>>, <<FALSE>> }
ApplyOnce == { <<FALSE>> }

NoPath == Path("", <<>>)
NoFile == [dir |-> "", name |-> <<>>, content |-> "", id |-> <<>>]

NewFile(dir, name, content, by, at) ==
  [dir |-> dir, name |-> name, content |-> content, id |-> <<by, at, dir, name>>]

\* ------------------------------------------------------------------------
\* State
\* ------------------------------------------------------------------------
VARIABLES
  targetIsDir,  \* target_dir.exists() and target_dir.is_dir()
  fileCmd,      \* the `file` command can be run
  files,        \* regular files under the target directory
  dirs,         \* category folders that exist
  plan,         \* dry_run of the passes to come, in order
  dry_run,      \* self.dry_run of the organizer of the current pass
  pc,           \* "idle", "loop" (between entries), "place" (destination resolved)
  todo,         \* entries of iterdir() not yet visited
  cur,          \* file_path being processed
  new_path,     \* result of _resolve_conflict for cur
  log,          \* records handed to the logger by the current pass
  pending,      \* (source, category, destination) decided so far, per pass
  runs,         \* organize() calls so far
  snaps,        \* directory content at the start of each pass
  lost,         \* files that were overwritten
  added,        \* files added by the user between passes
  faults,       \* OS errors raised so far
  ext,          \* files created by another process so far
  raced         \* another process created new_path after it was resolved

vars == <<targetIsDir, fileCmd, files, dirs, plan, dry_run, pc, todo, cur, new_path,
          log, pending, runs, snaps, lost, added, faults, ext, raced>>

Rec(level, kind, name, dest, err) ==
  [level |-> level, kind |-> kind, name |-> name, dest |-> dest, err |-> err]

TopFiles(fs) == {f \in fs : f.dir = TopDir}

\* names unique inside every directory
WellFormed(fs) == \A f, g \in fs : (f.dir = g.dir /\ f.name = g.name) => f = g

InitWith(plans, pool) ==
  /\ pc = "idle" /\ todo = {} /\ cur = NoFile /\ new_path = NoPath
  /\ log = <<>> /\ pending = {} /\ runs = 0 /\ snaps = <<>> /\ lost = {}
  /\ added = 0 /\ faults = 0 /\ ext = 0 /\ raced = FALSE
  /\ dry_run = FALSE
  /\ plan \in plans
  /\ targetIsDir \in BOOLEAN
  /\ IF ~targetIsDir
       THEN fileCmd = TRUE /\ files = {} /\ dirs = {}
       ELSE /\ fileCmd \in BOOLEAN
            /\ dirs \in SUBSET PreDirs
            /\ \E top \in SUBSET pool,
                  pre \in SUBSET (PreNames \X {"Documents"}) :
                 /\ Cardinality(top) <= MaxTop
                 /\ Cardinality(pre) <= MaxPre
                 /\ \A p \in pre : p[2] \in dirs
                 /\ \A s, t \in top : s[1] = t[1] => s = t
                 /\ \A s \in top : \A d \in dirs : s[1] # DirName(d)
                 \* without the `file` command the content plays no role
                 /\ ~fileCmd => \A s \in top : s[2] = "data"
                 /\ files = {NewFile(TopDir, s[1], s[2], "init", 0) : s \in top}
                      \cup {NewFile(p[2], p[1], "data", "init", 0) : p \in pre}

Init == InitWith(TwoPasses, TopPool)

InitFaults == InitWith(OnePass, FaultPool)

InitExt == InitWith(ApplyOnce, TopPool)

\* ------------------------------------------------------------------------
\* organize()
\* ------------------------------------------------------------------------
\* names returned by target_dir.iterdir()
Entries == {f.name : f \in TopFiles(files)} \cup {DirName(d) : d \in dirs}

\* entry.is_file()
IsFile(e) == Exists(TopDir, e, files)

FileAt(e) == CHOOSE f \in files : f.dir = TopDir /\ f.name = e

\* lines 60-65: precondition check, start record; iterdir() lists the
\* directory once
StartRun ==
  /\ pc = "idle" /\ runs < Len(plan)
  /\ dry_run' = plan[runs + 1]
  /\ runs' = runs + 1
  /\ IF ~targetIsDir
       THEN /\ log' = <<Rec("ERROR", "notdir", <<>>, NoPath, "")>>
            /\ UNCHANGED <<pc, todo, snaps>>
       ELSE /\ log' = <<Rec("INFO", "start", <<>>, NoPath, "")>>
            /\ pc' = "loop"
            /\ todo' = Entries
            /\ snaps' = Append(snaps, [files |-> files, dirs |-> dirs])
  /\ UNCHANGED <<targetIsDir, fileCmd, files, dirs, plan, cur, new_path, pending,
                 lost, added, faults, ext, raced>>

\* a loop body without try/except: the exception leaves organize()
NoExceptHandler(e, err, logNow) ==
  /\ log' = logNow
  /\ pc' = "aborted"

\* lines 71-72: the except clause of the loop body
ExceptHandler(e, err, logNow) ==
  /\ log' = Append(logNow, Rec("ERROR", "failed", e, NoPath, err))
  /\ pc' = "loop"

\* the warning of _get_category_by_file_command when the sniffer raised
SniffLog(e, logNow) ==
  IF fileCmd THEN logNow
  ELSE Append(logNow, Rec("WARNING", "sniff", e, NoPath, "FileNotFoundError"))

\* lines 67-70 and 74-86: one entry up to the resolved destination
ProcessFile(e) ==
  /\ pc = "loop" /\ e \in todo
  /\ todo' = todo \ {e}
  /\ UNCHANGED <<targetIsDir, fileCmd, files, plan, dry_run, runs, snaps, lost,
                 added, faults, ext, raced>>
  /\ IF ~IsFile(e)
       THEN UNCHANGED <<dirs, pc, cur, new_path, log, pending>>
     ELSE IF IsHidden(e)
       THEN /\ log' = Append(log, Rec("INFO", "skip", e, NoPath, ""))
            /\ UNCHANGED <<dirs, pc, cur, new_path, pending>>
     ELSE
       LET f == FileAt(e)
           category == Classify(e, f.content, fileCmd)
           dest == ResolveConflict(category, e, files)
       IN  IF category = None
             \* target_dir / None is a TypeError
             THEN /\ ExceptHandler(e, "TypeError", SniffLog(e, log))
                  /\ UNCHANGED <<dirs, cur, new_path, pending>>
           ELSE IF MkdirRaises(category, files, dirs)
             THEN /\ ExceptHandler(e, "FileExistsError", SniffLog(e, log))
                  /\ UNCHANGED <<dirs, cur, new_path, pending>>
             ELSE /\ dirs' = Mkdir(category, dirs)
                  /\ new_path' = dest
                  /\ cur' = f
                  /\ pending' = pending \cup
                       {[run |-> runs, id |-> f.id, name |-> e, content |-> f.content,
                         category |-> category, dest |-> dest]}
                  /\ log' = SniffLog(e, log)
                  /\ pc' = "place"

\* lines 88-92: report the move or perform it
Place ==
  /\ pc = "place"
  /\ UNCHANGED <<targetIsDir, fileCmd, dirs, plan, dry_run, todo, pending, runs,
                 snaps, added, faults, ext>>
  /\ cur' = NoFile /\ new_path' = NoPath /\ raced' = FALSE
  /\ pc' = "loop"
  /\ IF dry_run
       THEN /\ log' = Append(log, Rec("INFO", "dry", cur.name, new_path, ""))
            /\ UNCHANGED <<files, lost>>
       ELSE /\ files' = ShutilMove(cur, new_path, files)
            /\ lost' = lost \cup {g \in files : g.dir = new_path.dir
                                                /\ g.name = new_path.name}
            /\ log' = Append(log, Rec("INFO", "moved", cur.name, new_path, ""))

\* the for loop is exhausted: organize() returns
Finish ==
  /\ pc = "loop" /\ todo = {}
  /\ pc' = "idle"
  /\ UNCHANGED <<targetIsDir, fileCmd, files, dirs, plan, dry_run, todo, cur,
                 new_path, log, pending, runs, snaps, lost, added, faults, ext, raced>>

\* ------------------------------------------------------------------------
\* OS errors
\* ------------------------------------------------------------------------
\* lines 84-86 raise: mkdir of a new folder is refused (at = "mkdir"), or the
\* folder is there and destination.exists() is refused (at = "exists")
ProcessFileRaises(e, at) ==
  /\ pc = "loop" /\ e \in todo
  /\ IsFile(e) /\ ~IsHidden(e)
  /\ faults < MaxFaults
  /\ LET category == Classify(e, FileAt(e).content, fileCmd)
     IN  /\ category # None
         /\ ~MkdirRaises(category, files, dirs)
         /\ IF at = "mkdir"
              THEN category \notin dirs /\ UNCHANGED dirs
              ELSE dirs' = Mkdir(category, dirs)
  /\ ExceptHandler(e, "PermissionError", SniffLog(e, log))
  /\ todo' = todo \ {e}
  /\ faults' = faults + 1
  /\ UNCHANGED <<targetIsDir, fileCmd, files, plan, dry_run, cur, new_path, pending,
                 runs, snaps, lost, added, ext, raced>>

\* line 91 raises: the move is refused (err = "PermissionError"), or the
\* platform's rename does not replace a file that is at new_path
\* (err = "FileExistsError")
MoveRaises(err) ==
  /\ pc = "place" /\ ~dry_run
  /\ IF err = "FileExistsError"
       THEN Exists(new_path.dir, new_path.name, files) /\ UNCHANGED faults
       ELSE faults < MaxFaults /\ faults' = faults + 1
  /\ ExceptHandler(cur.name, err, log)
  /\ cur' = NoFile /\ new_path' = NoPath /\ raced' = FALSE
  /\ UNCHANGED <<targetIsDir, fileCmd, files, dirs, plan, dry_run, todo, pending,
                 runs, snaps, lost, added, ext>>

\* ------------------------------------------------------------------------
\* Environment
\* ------------------------------------------------------------------------
\* between two passes the user puts a new file into the directory
AddFile(n, c) ==
  /\ pc = "idle" /\ targetIsDir
  /\ 0 < runs /\ runs < Len(plan) /\ added < MaxAdded
  /\ ~Exists(TopDir, n, files)
  /\ \A d \in dirs : n # DirName(d)
  /\ files' = files \cup {NewFile(TopDir, n, c, "user", runs)}
  /\ added' = added + 1
  /\ UNCHANGED <<targetIsDir, fileCmd, dirs, plan, dry_run, pc, todo, cur, new_path,
                 log, pending, runs, snaps, lost, faults, ext, raced>>

\* paths at which another process may create a file during a pass
ExternalTargets ==
  (IF pc = "place" THEN {new_path} ELSE {})
    \cup {Path(d, n) : d \in dirs, n \in AddNames}

\* another process creates a file inside a category folder while a pass runs
ExternalCreate(p) ==
  /\ pc \in {"loop", "place"} /\ ext < MaxExternal
  /\ p \in ExternalTargets
  /\ ~Exists(p.dir, p.name, files)
  /\ files' = files \cup {NewFile(p.dir, p.name, "data", "ext", ext)}
  /\ ext' = ext + 1
  /\ raced' = (raced \/ (pc = "place" /\ p = new_path))
  /\ UNCHANGED <<targetIsDir, fileCmd, dirs, plan, dry_run, pc, todo, cur, new_path,
                 log, pending, runs, snaps, lost, added, faults>>

\* ------------------------------------------------------------------------
\* Specifications
\* ------------------------------------------------------------------------
Pass ==
  \/ StartRun
  \/ \E e \in todo : ProcessFile(e)
  \/ Place
  \/ Finish

Next ==
  \/ Pass
  \/ \E n \in AddNames, c \in Contents : AddFile(n, c)

\* the organizer alone in its directory, no OS error, two passes
Spec == Init /\ [][Next]_vars

NextFaults ==
  \/ Pass
  \/ \E e \in todo, at \in {"mkdir", "exists"} : ProcessFileRaises(e, at)
  \/ MoveRaises("PermissionError")

\* one pass during which OS errors may be raised
SpecFaults == InitFaults /\ [][NextFaults]_vars

NextExt ==
  \/ Pass
  \/ \E p \in ExternalTargets : ExternalCreate(p)
  \/ MoveRaises("FileExistsError")

\* one apply pass with another process writing into the directory
SpecExt == InitExt /\ [][NextExt]_vars

\* ------------------------------------------------------------------------
\* Vocabulary of the properties
\* ------------------------------------------------------------------------
A_TXT == <<"a",".","t","x","t">>
A_1_TXT == <<"a","_","1",".","t","x","t">>
A_2_TXT == <<"a","_","2",".","t","x","t">>
SECRET == <<".","s","e","c","r","e","t">>
ARCHIVE_XYZ == <<"a","r","c","h","i","v","e",".","x","y","z">>

StartsWithDot(n) == n # <<>> /\ Head(n) = "."

\* a pass has started on an existing directory
InPass == targetIsDir /\ runs >= 1

\* the current pass has returned
PassDone == InPass /\ pc = "idle"

LogKinds(name) == {log[i].kind : i \in {j \in DOMAIN log : log[j].name = name}}

\* some keyword of the table occurs in the lower-cased text s
AnyKeywordIn(s) ==
  LET t == Lower(s)
  IN  \E i \in DOMAIN KeywordsLower : \E j \in DOMAIN KeywordsLower[i] :
         Contains(t, KeywordsLower[i][j])

\* the extension belongs to some entry of EXTENSION_MAP
ExtensionKnown(x) ==
  \E i \in 1..Len(EXTENSION_MAP) : \E j \in 1..Len(EXTENSION_MAP[i].extensions) :
     EXTENSION_MAP[i].extensions[j] = x

\* the step appended a record of a failure to the log
FailureLogged ==
  /\ Len(log') = Len(log) + 1
  /\ log'[Len(log')].kind = "failed"

TypeOK ==
  /\ pc \in {"idle", "loop", "place"}
  /\ WellFormed(files)
  /\ dirs \subseteq Categories

\* ------------------------------------------------------------------------
\* Properties
\* ------------------------------------------------------------------------

\* C1: a dry-run pass followed by an apply pass over the same files reports
\* the same destination path for every file in both passes.
C1_DryRunAndApplyAgree ==
  (InPass /\ runs = 2 /\ plan = <<TRUE, FALSE>> /\ snaps[1].files = snaps[2].files) =>
     \A p, q \in pending :
        (p.run = 1 /\ q.run = 2 /\ p.id = q.id) => p.dest = q.dest

\* C2: a dry-run pass changes nothing under the target directory: the files
\* and the folders are those the pass started with.
C2_DryRunNoMutation ==
  (InPass /\ dry_run /\ added = 0) =>
     /\ files = snaps[runs].files
     /\ dirs = snaps[runs].dirs

\* C3: the resolved destination does not exist; it is the requested path when
\* that is unused, else stem_k.ext with the smallest k >= 1 that is unused
\* (a.txt, a_1.txt present gives a_2.txt; a.txt, a_2.txt present gives a_1.txt).
C3_ResolveSmallestUnused ==
  pc = "place" =>
     LET d == new_path.dir
         n == cur.name
     IN  /\ ~Exists(d, new_path.name, files)
         /\ ~Exists(d, n, files) => new_path = Path(d, n)
         /\ Exists(d, n, files) =>
              \E k \in 1..(Cardinality(files) + 1) :
                 /\ new_path.name = Stem(n) \o <<"_">> \o Str(k) \o Suffix(n)
                 /\ \A j \in 1..(k - 1) :
                       Exists(d, Stem(n) \o <<"_">> \o Str(j) \o Suffix(n), files)
         /\ (n = A_TXT /\ Exists(d, A_TXT, files) /\ Exists(d, A_1_TXT, files)
               /\ ~Exists(d, A_2_TXT, files))
              => new_path.name = A_2_TXT
         /\ (n = A_TXT /\ Exists(d, A_TXT, files) /\ ~Exists(d, A_1_TXT, files))
              => new_path.name = A_1_TXT

\* C3 witness: a.txt is resolved against a folder holding a.txt and a_2.txt
\* but not a_1.txt, and the result is a_1.txt
C3_Witness ==
  /\ pc = "place" /\ cur.name = A_TXT
  /\ Exists(new_path.dir, A_TXT, files)
  /\ Exists(new_path.dir, A_2_TXT, files)
  /\ new_path.name = A_1_TXT

\* C4: every file that is classified gets one of the eight categories, a
\* failing sniffer does not fail the file, and a file with an inconclusive
\* sniff and an extension outside EXTENSION_MAP gets "Others".
C4_ClassificationTotal ==
  /\ \A p \in pending :
        /\ p.category \in Categories
        /\ ( (~fileCmd \/ ~AnyKeywordIn(FileOutput(p.name, p.content)))
             /\ ~ExtensionKnown(Lower(Suffix(p.name))) ) => p.category = "Others"
  /\ \A i \in DOMAIN log :
        log[i].kind = "failed" => log[i].err \notin {"FileNotFoundError", "TypeError"}
  /\ pc = "place" => \E p \in pending : p.run = runs /\ p.id = cur.id

\* C4 witness: without the sniffer archive.xyz was classified as Others
C4_Witness ==
  /\ ~fileCmd
  /\ \E p \in pending : p.name = ARCHIVE_XYZ /\ p.category = "Others"
  /\ \E i \in DOMAIN log : log[i].kind = "sniff" /\ log[i].name = ARCHIVE_XYZ

\* C5: the content tier depends on the content description only: two files
\* with the same description get the same content-tier category whatever
\* their names, and a description without keyword leaves the decision to the
\* extension tier.
C5_ContentTierByDescriptionOnly ==
  fileCmd =>
    /\ \A p, q \in pending :
          p.content = q.content =>
             GetCategoryByFileCommand(p.name, p.content, TRUE)
               = GetCategoryByFileCommand(q.name, q.content, TRUE)
    /\ \A p \in pending :
          ~AnyKeywordIn(Describe(p.content)) =>
             /\ GetCategoryByFileCommand(p.name, p.content, TRUE) = None
             /\ (~ExtensionKnown(Lower(Suffix(p.name))) => p.category = "Others")

\* C6: an entry whose processing raises is logged and changes no file and no
\* earlier decision; the loop goes on, the exception does not leave
\* organize(), and when the pass returns every entry has been attempted.
C6_FaultIsolation ==
  /\ [](pc \in {"idle", "loop", "place"})
  /\ [](PassDone =>
          /\ todo = {}
          /\ \A f \in TopFiles(snaps[runs].files) :
                LogKinds(f.name) \cap {"skip", "dry", "moved", "failed"} # {})
  /\ [][FailureLogged =>
          /\ files' = files
          /\ pending' = pending
          /\ pc' = "loop"
          /\ todo' \subseteq todo
          /\ SubSeq(log', 1, Len(log)) = log]_vars

\* C6 witness: the pass returned, an entry failed, and entries were placed
\* both before and after it
C6_Witness ==
  /\ PassDone
  /\ \E i, j, k \in DOMAIN log :
        /\ i < j /\ j < k
        /\ log[i].kind = "moved"
        /\ log[j].kind = "failed"
        /\ log[k].kind = "moved"

\* C7: a regular file whose name starts with "." stays where it is, is never
\* classified, no folder is created when it is visited, and the visit logs
\* exactly one INFO skip record.
C7_HiddenFilesUntouched ==
  /\ [](InPass =>
          /\ \A f \in TopFiles(snaps[runs].files) : StartsWithDot(f.name) => f \in files
          /\ \A p \in pending : ~StartsWithDot(p.name)
          /\ \A i, j \in DOMAIN log :
                StartsWithDot(log[i].name) =>
                   /\ log[i].kind = "skip" /\ log[i].level = "INFO"
                   /\ (log[j].name = log[i].name => i = j))
  /\ [][\A e \in todo \ todo' :
          (Exists(TopDir, e, files) /\ StartsWithDot(e)) =>
             /\ files' = files /\ dirs' = dirs /\ pending' = pending
             /\ pc' = "loop"
             /\ log' = Append(log, Rec("INFO", "skip", e, NoPath, ""))]_vars
  /\ [](PassDone =>
          \A f \in TopFiles(snaps[runs].files) :
             StartsWithDot(f.name) => LogKinds(f.name) = {"skip"})

\* C7 witness: an apply pass returned, .secret is still at the top level and
\* another file was moved
C7_Witness ==
  /\ PassDone /\ ~dry_run
  /\ Exists(TopDir, SECRET, files)
  /\ LogKinds(SECRET) = {"skip"}
  /\ \E i \in DOMAIN log : log[i].kind = "moved"

\* C8: in a second apply pass no entry fails because its category folder
\* exists, the files inside the category folders stay where they are, and the
\* files found at the top level, newly added ones included, are merged into
\* the folders.
C8_SecondApplyPass ==
  (InPass /\ runs = 2 /\ plan = <<FALSE, FALSE>>) =>
     /\ \A i \in DOMAIN log : log[i].kind # "failed"
     /\ \A f \in snaps[2].files : f.dir # TopDir => f \in files
     /\ snaps[2].dirs \subseteq dirs
     /\ pc = "idle" =>
           \A f \in TopFiles(snaps[2].files) :
              (~StartsWithDot(f.name) /\ "failed" \notin LogKinds(f.name)) =>
                 \E g \in files : g.id = f.id /\ g.dir \in Categories

\* C8 witness: the second apply pass returned and the a.txt added between the
\* passes lies next to the a.txt of the first pass, in a folder that existed
C8_Witness ==
  /\ PassDone /\ runs = 2 /\ plan = <<FALSE, FALSE>> /\ added = 1
  /\ \E g, h \in files :
        /\ g.id[1] = "user" /\ g.dir \in snaps[2].dirs /\ g.name = A_1_TXT
        /\ h.id[1] = "init" /\ h.dir = g.dir /\ h.name = A_TXT
        /\ h.id[3] = TopDir

\* C9: the move replaces a file, or is refused because the destination
\* exists, only if another process created the destination after it was
\* resolved; without such a step neither happens.
C9_OverwriteOnlyByRace ==
  /\ [](ext = 0 => (lost = {} /\ ~raced))
  /\ [](pc = "place" =>
          (Exists(new_path.dir, new_path.name, files) <=> raced))
  /\ [][(lost' # lost
          \/ (FailureLogged /\ log'[Len(log')].err = "FileExistsError" /\ pc = "place"))
        => (raced /\ ext > 0)]_vars

\* C9 witness: a file created by another process has been overwritten
C9_Witness ==
  /\ lost # {}
  /\ \A g \in lost : g.id[1] = "ext"
  /\ \E i \in DOMAIN log : log[i].kind = "moved"

\* C10: an apply pass without interference loses and overwrites nothing:
\* what was in the category folders stays, every moved file lies at its own
\* path inside the folder of its category, that path was free just before the
\* move, and the number of files does not change.
C10_ApplyLosesNothing ==
  /\ [](InPass /\ ~dry_run =>
          /\ lost = {}
          /\ WellFormed(files)
          /\ Cardinality(files) = Cardinality(snaps[runs].files)
          /\ {f.id : f \in files} = {f.id : f \in snaps[runs].files}
          /\ \A f \in snaps[runs].files : f.dir # TopDir => f \in files
          /\ \A i \in DOMAIN log :
                log[i].kind = "moved" =>
                   /\ \E p \in pending, g \in files :
                         /\ p.run = runs /\ p.name = log[i].name
                         /\ p.dest = log[i].dest
                         /\ log[i].dest.dir = p.category
                         /\ p.category \in dirs
                         /\ g.id = p.id /\ g.dir = p.dest.dir /\ g.name = p.dest.name
                   /\ \A j \in DOMAIN log :
                         (log[j].kind = "moved" /\ log[j].dest = log[i].dest) => i = j)
  /\ [][\A g \in files' \ files :
          pc = "place" => ~Exists(g.dir, g.name, files)]_vars

\* C10 witness: the pass moved two files into a folder that already held a
\* file, one of them under a new name
C10_Witness ==
  /\ PassDone /\ ~dry_run
  /\ \E i, j \in DOMAIN log :
        /\ i # j
        /\ log[i].kind = "moved" /\ log[j].kind = "moved"
        /\ log[i].dest.dir = log[j].dest.dir
        /\ log[i].dest.name # log[i].name
  /\ \E f \in snaps[runs].files : f.dir # TopDir
====
